---- MODULE Spec2Model ----
(***************************************************************************)
(* Model of draco-gltf-rs: decode_draco = prozes_in, the external engine  *)
(* call draco_decoder::decode_mesh, and prozes_out (get_indices, the       *)
(* attribute slicing loop, the reverse map and fill_primitive).            *)
(*                                                                         *)
(* Representation choices:                                                 *)
(*  - a byte is a number in 0..255, a byte slice is a sequence of bytes;   *)
(*  - a 32-bit value is kept as its two 16-bit halves, [hi, lo], standing  *)
(*    for hi * 65536 + lo (TLC's integers are 32-bit signed);              *)
(*  - an f32 read with from_le_bytes is kept as its bit pattern            *)
(*    [bits |-> u32]; an f32 quotient c as f32 / d is kept as [num, den];  *)
(*  - counts, ids and indices of the model stay far below 2^32, so the     *)
(*    range checks of u32 and the `as u32` casts never change a value;     *)
(*  - a Rust String is a sequence of one-character strings;                *)
(*  - Option is [some |-> FALSE] or [some |-> TRUE, v |-> x];              *)
(*  - Result is Ok(x), Err(e), or Panic (the call aborts by unwinding);    *)
(*  - a HashMap is a function on its finite key set.                       *)
(***************************************************************************)
EXTENDS Integers, Sequences, FiniteSets, TLC

\* ---------------------------------------------------------------- bounds
MaxInfos == 2
MaxRawLen == 20
MaxCount == 2
MaxViews == 1

\* ------------------------------------------------------- Option / Result
None == [some |-> FALSE]
Some(x) == [some |-> TRUE, v |-> x]

Ok(x) == [tag |-> "Ok", value |-> x]
Err(e) == [tag |-> "Err", err |-> e]
Panic == [tag |-> "Panic"]

\* DracoLoadError (lib.rs 13-33)
NotDraco == [kind |-> "NotDraco"]
BadExtension == [kind |-> "BadExtension"]
BadBufferView(i) == [kind |-> "BadBufferView", index |-> i]
BadBuffer(i) == [kind |-> "BadBuffer", index |-> i]
NoPositionAccessor == [kind |-> "NoPositionAccessor"]
NoIndicesAccessor == [kind |-> "NoIndicesAccessor"]
DracoDecode == [kind |-> "DracoDecode"]
UnknownAttributeId(id) == [kind |-> "UnknownAttributeId", id |-> id]
UnsupportedMode == [kind |-> "UnsupportedMode"]

\* ------------------------------------------------------------- HashMap
EmptyMap == [x \in {} |-> None]
MapInsert(m, k, x) == [y \in (DOMAIN m) \cup {k} |-> IF y = k THEN x ELSE m[y]]
MapGet(m, k) == IF k \in DOMAIN m THEN Some(m[k]) ELSE None

\* ------------------------------------------------------------- Semantic
Positions == [kind |-> "Positions"]
Normals == [kind |-> "Normals"]
Tangents == [kind |-> "Tangents"]
TexCoords(n) == [kind |-> "TexCoords", set |-> n]
Colors(n) == [kind |-> "Colors", set |-> n]
Joints(n) == [kind |-> "Joints", set |-> n]
Weights(n) == [kind |-> "Weights", set |-> n]

\* ------------------------------------------------------- mapping.rs
Digits == <<"0", "1", "2", "3", "4", "5", "6", "7", "8", "9">>
IsDigit(c) == \E d \in 1..10 : Digits[d] = c
DigitVal(c) == (CHOOSE d \in 1..10 : Digits[d] = c) - 1

RECURSIVE DecimalValue(_)
DecimalValue(s) ==
    IF s = <<>> THEN 0
    ELSE 10 * DecimalValue(SubSeq(s, 1, Len(s) - 1)) + DigitVal(s[Len(s)])

\* str::parse::<u32>: an optional leading '+', then one or more ASCII digits
\* (the keys of the model hold at most a few digits, so the value fits u32)
ParseU32(s) ==
    LET body == IF s # <<>> /\ s[1] = "+" THEN Tail(s) ELSE s
    IN  IF body = <<>> \/ \E i \in 1..Len(body) : ~IsDigit(body[i]) THEN None
        ELSE Some(DecimalValue(body))

\* str::split_once('_'): split at the first underscore
SplitOnce(key) ==
    IF \E i \in 1..Len(key) : key[i] = "_"
    THEN LET i == CHOOSE j \in 1..Len(key) :
                     key[j] = "_" /\ \A h \in 1..(j - 1) : key[h] # "_"
         IN  Some(<<SubSeq(key, 1, i - 1), SubSeq(key, i + 1, Len(key))>>)
    ELSE None

K_POSITION == <<"P", "O", "S", "I", "T", "I", "O", "N">>
K_NORMAL == <<"N", "O", "R", "M", "A", "L">>
K_TANGENT == <<"T", "A", "N", "G", "E", "N", "T">>
K_TEXCOORD == <<"T", "E", "X", "C", "O", "O", "R", "D">>
K_COLOR == <<"C", "O", "L", "O", "R">>
K_JOINTS == <<"J", "O", "I", "N", "T", "S">>
K_WEIGHTS == <<"W", "E", "I", "G", "H", "T", "S">>

dracokey_to_semantic(key) ==
    IF key = K_POSITION THEN Some(Positions)
    ELSE IF key = K_NORMAL THEN Some(Normals)
    ELSE IF key = K_TANGENT THEN Some(Tangents)
    ELSE LET split == SplitOnce(key) IN
         IF ~split.some THEN None
         ELSE LET kind == split.v[1]
                  idx == ParseU32(split.v[2])
              IN  IF ~idx.some THEN None
                  ELSE IF kind = K_TEXCOORD THEN Some(TexCoords(idx.v))
                  ELSE IF kind = K_COLOR THEN Some(Colors(idx.v))
                  ELSE IF kind = K_JOINTS THEN Some(Joints(idx.v))
                  ELSE IF kind = K_WEIGHTS THEN Some(Weights(idx.v))
                  ELSE None

map_draco_dt(dt_u8) ==
    CASE dt_u8 = 1 -> "Int8"
      [] dt_u8 = 2 -> "UInt8"
      [] dt_u8 = 3 -> "Int16"
      [] dt_u8 = 4 -> "UInt16"
      [] dt_u8 = 5 -> "Int32"
      [] dt_u8 = 6 -> "UInt32"
      [] dt_u8 = 7 -> "Float32"
      [] OTHER -> "Float32"

comp_size_bytes(ct) ==
    CASE ct \in {"I8", "U8"} -> 1
      [] ct \in {"I16", "U16"} -> 2
      [] ct \in {"U32", "F32"} -> 4
      [] OTHER -> 4

dims_count(d) ==
    CASE d = "Scalar" -> 1
      [] d = "Vec2" -> 2
      [] d = "Vec3" -> 3
      [] d = "Vec4" -> 4
      [] OTHER -> 4

u16_from_le_bytes(b0, b1) == b0 + 256 * b1
U32(hi, lo) == [hi |-> hi, lo |-> lo]
u32_from_le_bytes(b0, b1, b2, b3) == U32(b2 + 256 * b3, b0 + 256 * b1)
\* `x as u32` of a u8 or u16
AsU32(x) == U32(0, x)
f32_from_le_bytes(b0, b1, b2, b3) == [bits |-> u32_from_le_bytes(b0, b1, b2, b3)]
f32_div(c, d) == [num |-> c, den |-> d]

\* slice::chunks_exact(n): the Len \div n whole chunks, the remainder is dropped
ChunksExact(bytes, n) ==
    [k \in 1..(Len(bytes) \div n) |-> SubSeq(bytes, (k - 1) * n + 1, k * n)]

as_f32n(N, bytes) ==
    LET chunks == ChunksExact(bytes, 4 * N)
    IN  [k \in 1..Len(chunks) |->
            [i \in 1..N |->
                LET base == (i - 1) * 4
                    c == chunks[k]
                IN  f32_from_le_bytes(c[base + 1], c[base + 2], c[base + 3], c[base + 4])]]

as_u16x4(bytes) ==
    LET chunks == ChunksExact(bytes, 8)
    IN  [k \in 1..Len(chunks) |->
            LET c == chunks[k]
            IN  <<u16_from_le_bytes(c[1], c[2]), u16_from_le_bytes(c[3], c[4]),
                  u16_from_le_bytes(c[5], c[6]), u16_from_le_bytes(c[7], c[8])>>]

as_u8x4(bytes) ==
    LET chunks == ChunksExact(bytes, 4)
    IN  [k \in 1..Len(chunks) |-> <<chunks[k][1], chunks[k][2], chunks[k][3], chunks[k][4]>>]

\* ------------------------------------------------------------ lib.rs
\* DecodedPrimitive::default() (lib.rs 1-11)
DefaultPrimitive ==
    [indices |-> <<>>, positions |-> None, normals |-> None, tangents |-> None,
     texcoords |-> EmptyMap, colors |-> EmptyMap, joints |-> EmptyMap,
     weights |-> EmptyMap]

\* serde_json::from_value::<DracoExt>: the value must be an object holding
\* "bufferView" as an unsigned integer and "attributes" as an object whose
\* values are all unsigned integers.
JUint(n) == [t |-> "uint", v |-> n]
JString == [t |-> "string"]
JNull == [t |-> "null"]
JObject(m) == [t |-> "object", v |-> m]

from_value(value) ==
    IF /\ value.t = "object"
       /\ {"bufferView", "attributes"} \subseteq DOMAIN value.v
       /\ value.v.bufferView.t = "uint"
       /\ value.v.attributes.t = "object"
       /\ \A k \in DOMAIN value.v.attributes.v :
             value.v.attributes.v[k].t = "uint"
    THEN Ok([buffer_view |-> value.v.bufferView.v,
             attributes |-> [k \in DOMAIN value.v.attributes.v |->
                                value.v.attributes.v[k].v]])
    ELSE Err(BadExtension)

\* Primitive::get(&semantic)
PrimitiveGet(prim, sem) == MapGet(prim.attributes, sem)

get_buffer(doc, bufs, index) ==
    IF index >= Len(doc.views) THEN Err(BadBufferView(index))
    ELSE LET bv == doc.views[index + 1]
             buffer_idx == bv.buffer
         IN  IF buffer_idx >= Len(bufs) THEN Err(BadBuffer(buffer_idx))
             ELSE LET buf == bufs[buffer_idx + 1]
                      start == bv.offset
                      end == start + bv.length
                  IN  IF end > Len(buf) THEN Panic
                      ELSE Ok(SubSeq(buf, start + 1, end))

\* MeshDecodeConfig::new followed by add_attribute for each info, in order
BuildCfg(vertex_count, index_count, attr_infos) ==
    [vertex_count |-> vertex_count,
     index_count |-> index_count,
     attributes |-> [i \in 1..Len(attr_infos) |->
                        [dim |-> attr_infos[i].dim,
                         data_type |-> map_draco_dt(attr_infos[i].data_type)]]]

\* prozes_in with the accessors looked up before the buffer view is resolved
prozes_in_accessors_first(prim, doc, bufs, attr_infos) ==
    IF prim.mode # "Triangles" THEN Err(UnsupportedMode)
    ELSE IF ~prim.extension.some THEN Err(NotDraco)
    ELSE LET ext == from_value(prim.extension.v) IN
    IF ext.tag # "Ok" THEN ext
    ELSE LET pos == PrimitiveGet(prim, Positions) IN
    IF ~pos.some THEN Err(NoPositionAccessor)
    ELSE IF ~prim.indices.some THEN Err(NoIndicesAccessor)
    ELSE LET bytes == get_buffer(doc, bufs, ext.value.buffer_view) IN
    IF bytes.tag # "Ok" THEN bytes
    ELSE LET vertex_count == pos.v.count
             index_count == prim.indices.v.count
             index_comp == IF prim.indices.v.data_type = "U8" THEN "U16"
                           ELSE prim.indices.v.data_type
         IN  Ok([draco_bytes |-> bytes.value,
                 cfg |-> BuildCfg(vertex_count, index_count, attr_infos),
                 index_comp |-> index_comp,
                 index_count |-> index_count,
                 vertex_count |-> vertex_count,
                 draco_ext |-> ext.value])

prozes_in(prim, doc, bufs, attr_infos) ==
    IF prim.mode # "Triangles" THEN Err(UnsupportedMode)
    ELSE IF ~prim.extension.some THEN Err(NotDraco)
    ELSE LET ext == from_value(prim.extension.v) IN
    IF ext.tag # "Ok" THEN ext
    ELSE LET bytes == get_buffer(doc, bufs, ext.value.buffer_view) IN
    IF bytes.tag # "Ok" THEN bytes
    ELSE LET pos == PrimitiveGet(prim, Positions) IN
    IF ~pos.some THEN Err(NoPositionAccessor)
    ELSE IF ~prim.indices.some THEN Err(NoIndicesAccessor)
    ELSE LET vertex_count == pos.v.count
             index_count == prim.indices.v.count
             index_comp == IF prim.indices.v.data_type = "U8" THEN "U16"
                           ELSE prim.indices.v.data_type
         IN  Ok([draco_bytes |-> bytes.value,
                 cfg |-> BuildCfg(vertex_count, index_count, attr_infos),
                 index_comp |-> index_comp,
                 index_count |-> index_count,
                 vertex_count |-> vertex_count,
                 draco_ext |-> ext.value])

get_indices(raw_bytes, index_bytes, index_comp) ==
    IF index_bytes > Len(raw_bytes) THEN Panic
    ELSE LET indices_bytes == SubSeq(raw_bytes, 1, index_bytes) IN
         CASE index_comp = "U16" ->
                Ok([k \in 1..Len(ChunksExact(indices_bytes, 2)) |->
                      LET b == ChunksExact(indices_bytes, 2)[k]
                      IN  AsU32(u16_from_le_bytes(b[1], b[2]))])
           [] index_comp = "U32" ->
                Ok([k \in 1..Len(ChunksExact(indices_bytes, 4)) |->
                      LET b == ChunksExact(indices_bytes, 4)[k]
                      IN  u32_from_le_bytes(b[1], b[2], b[3], b[4])])
           [] index_comp = "U8" ->
                Ok([k \in 1..Len(indices_bytes) |-> AsU32(indices_bytes[k])])
           [] OTHER -> Err(DracoDecode)

\* the match on info.data_type inside the slicing loop (lib.rs 148-153)
elem_size(data_type) ==
    CASE data_type \in {1, 2} -> 1
      [] data_type \in {3, 4} -> 2
      [] data_type \in {5, 6, 7} -> 4
      [] OTHER -> 4

byte_len(vertex_count, info) == vertex_count * info.dim * elem_size(info.data_type)

\* slice_block that clamps the range to the end of the buffer
slice_block_clamped(raw_bytes, cur, vertex_count, info) ==
    LET len == byte_len(vertex_count, info)
        end == IF cur + len > Len(raw_bytes) THEN Len(raw_bytes) ELSE cur + len
    IN  Ok([cursor |-> cur + len,
            blk |-> [unique_id |-> info.unique_id,
                     bytes |-> SubSeq(raw_bytes, cur + 1, end),
                     dim |-> info.dim,
                     dt |-> map_draco_dt(info.data_type)]])

\* slice_block that forgets `cursor += byte_len`
slice_block_no_advance(raw_bytes, cur, vertex_count, info) ==
    LET len == byte_len(vertex_count, info) IN
    IF cur + len > Len(raw_bytes) THEN Panic
    ELSE Ok([cursor |-> cur,
             blk |-> [unique_id |-> info.unique_id,
                      bytes |-> SubSeq(raw_bytes, cur + 1, cur + len),
                      dim |-> info.dim,
                      dt |-> map_draco_dt(info.data_type)]])

\* one iteration of the slicing loop: &raw[cursor..cursor + byte_len]
slice_block(raw_bytes, cur, vertex_count, info) ==
    LET len == byte_len(vertex_count, info) IN
    IF cur + len > Len(raw_bytes) THEN Panic
    ELSE Ok([cursor |-> cur + len,
             blk |-> [unique_id |-> info.unique_id,
                      bytes |-> SubSeq(raw_bytes, cur + 1, cur + len),
                      dim |-> info.dim,
                      dt |-> map_draco_dt(info.data_type)]])

\* the reverse map built by iterating draco_ext.attributes in the order
\* `order` (a sequence listing every key once); later inserts overwrite
RECURSIVE build_reverse_map(_, _, _)
build_reverse_map(ext, prim, order) ==
    IF order = <<>> THEN EmptyMap
    ELSE LET n == Len(order)
             before == build_reverse_map(ext, prim, SubSeq(order, 1, n - 1))
             k == order[n]
             sem == dracokey_to_semantic(k)
         IN  IF ~sem.some THEN before
             ELSE LET acc == PrimitiveGet(prim, sem.v) IN
                  IF ~acc.some THEN before
                  ELSE MapInsert(before, ext.attributes[k],
                                 [sem |-> sem.v, acc |-> acc.v])

\* every order in which a HashMap holding the keys S can be iterated
IterationOrders(S) ==
    {o \in [1..Cardinality(S) -> S] : \A k \in S : \E i \in DOMAIN o : o[i] = k}

QuotientsU8x4(bytes) ==
    LET px == as_u8x4(bytes)
    IN  [k \in 1..Len(px) |-> [i \in 1..4 |-> f32_div(px[k][i], 255)]]

QuotientsU16x4(bytes) ==
    LET px == as_u16x4(bytes)
    IN  [k \in 1..Len(px) |-> [i \in 1..4 |-> f32_div(px[k][i], 65535)]]

\* the match on *sem inside fill_primitive (lib.rs 238-322)
write_block(prim_out, sem, blk) ==
    CASE sem.kind = "Positions" ->
            [prim_out EXCEPT !.positions = Some(as_f32n(3, blk.bytes))]
      [] sem.kind = "Normals" ->
            [prim_out EXCEPT !.normals = Some(as_f32n(3, blk.bytes))]
      [] sem.kind = "Tangents" ->
            [prim_out EXCEPT !.tangents = Some(as_f32n(4, blk.bytes))]
      [] sem.kind = "TexCoords" ->
            [prim_out EXCEPT !.texcoords = MapInsert(@, sem.set, as_f32n(2, blk.bytes))]
      [] sem.kind = "Colors" ->
            IF blk.dt = "Float32"
            THEN [prim_out EXCEPT !.colors = MapInsert(@, sem.set, as_f32n(4, blk.bytes))]
            ELSE [prim_out EXCEPT !.colors = MapInsert(@, sem.set, QuotientsU8x4(blk.bytes))]
      [] sem.kind = "Joints" ->
            IF blk.dt = "UInt16"
            THEN [prim_out EXCEPT !.joints = MapInsert(@, sem.set, as_u16x4(blk.bytes))]
            ELSE [prim_out EXCEPT !.joints = MapInsert(@, sem.set, as_u8x4(blk.bytes))]
      [] sem.kind = "Weights" ->
            IF blk.dt = "Float32"
            THEN [prim_out EXCEPT !.weights = MapInsert(@, sem.set, as_f32n(4, blk.bytes))]
            ELSE IF blk.dt = "UInt16"
            THEN [prim_out EXCEPT !.weights = MapInsert(@, sem.set, QuotientsU16x4(blk.bytes))]
            ELSE [prim_out EXCEPT !.weights = MapInsert(@, sem.set, QuotientsU8x4(blk.bytes))]

\* fill_block that skips a block whose id is unknown instead of failing
fill_block_skipping(prim_out, blk, id_to_sem, debug) ==
    LET hit == MapGet(id_to_sem, blk.unique_id) IN
    IF ~hit.some THEN Ok(prim_out)
    ELSE LET acc_dims == dims_count(hit.v.acc.dimensions) IN
         IF debug /\ acc_dims # blk.dim THEN Panic
         ELSE Ok(write_block(prim_out, hit.v.sem, blk))

\* one iteration of the loop of fill_primitive; debug_assert_eq! aborts only
\* in a build with debug assertions
fill_block(prim_out, blk, id_to_sem, debug) ==
    LET hit == MapGet(id_to_sem, blk.unique_id) IN
    IF ~hit.some THEN Err(UnknownAttributeId(blk.unique_id))
    ELSE LET acc_dims == dims_count(hit.v.acc.dimensions) IN
         IF debug /\ acc_dims # blk.dim THEN Panic
         ELSE Ok(write_block(prim_out, hit.v.sem, blk))

\* ------------------------------------------------------- the inputs
\* A deterministic byte pattern of a given length
Ramp(len, seed) == [i \in 1..len |-> (seed + i - 1) % 256]

Accessor(count, data_type, dimensions) ==
    [count |-> count, data_type |-> data_type, dimensions |-> dimensions]

AttrInfo(unique_id, dim, data_type) ==
    [unique_id |-> unique_id, dim |-> dim, data_type |-> data_type]

SeqsUpTo(S, n) == UNION {[1..m -> S] : m \in 0..n}

K_TEXCOORD_0 == K_TEXCOORD \o <<"_", "0">>
K_TEXCOORD_1 == K_TEXCOORD \o <<"_", "1">>
K_TEXCOORD_x == K_TEXCOORD \o <<"_", "x">>
K_COLOR_0 == K_COLOR \o <<"_", "0">>
K_JOINTS_0 == K_JOINTS \o <<"_", "0">>
K_WEIGHTS_p0 == K_WEIGHTS \o <<"_", "+", "0">>
K_FOO_0 == <<"F", "O", "O", "_", "0">>
K_BATCHID == <<"_", "B", "A", "T", "C", "H", "I", "D">>

\* a JSON object from a set of <<key, value>> pairs
Obj(pairs) ==
    JObject([k \in {pr[1] : pr \in pairs} |->
                (CHOOSE pr \in pairs : pr[1] = k)[2]])

ExtValue(buffer_view, ids) ==
    JObject([bufferView |-> JUint(buffer_view),
             attributes |-> Obj({<<pr[1], JUint(pr[2])>> : pr \in ids})])

AccMap(pairs) == [s \in {pr[1] : pr \in pairs} |-> (CHOOSE pr \in pairs : pr[1] = s)[2]]

\* Scenes: the "attributes" object of the extension and the accessors of the
\* primitive, every accessor holding `vc` elements.
Scenes(vc) ==
    { \* the shape of examples/test.glb: POSITION and one UV channel
      [ids |-> {<<K_POSITION, 0>>, <<K_TEXCOORD_0, 1>>},
       accs |-> AccMap({<<Positions, Accessor(vc, "F32", "Vec3")>>,
                        <<TexCoords(0), Accessor(vc, "F32", "Vec2")>>})],
      \* one unique id under two semantic keys
      [ids |-> {<<K_POSITION, 0>>, <<K_NORMAL, 0>>},
       accs |-> AccMap({<<Positions, Accessor(vc, "F32", "Vec3")>>,
                        <<Normals, Accessor(vc, "F32", "Vec3")>>})],
      [ids |-> {<<K_TEXCOORD_0, 1>>, <<K_TEXCOORD_1, 1>>, <<K_POSITION, 0>>},
       accs |-> AccMap({<<Positions, Accessor(vc, "F32", "Vec3")>>,
                        <<TexCoords(0), Accessor(vc, "F32", "Vec2")>>,
                        <<TexCoords(1), Accessor(vc, "F32", "Vec2")>>})],
      \* keys that name no semantic
      [ids |-> {<<K_POSITION, 0>>, <<K_NORMAL, 1>>, <<K_FOO_0, 5>>,
                <<K_TEXCOORD_x, 5>>, <<K_BATCHID, 5>>},
       accs |-> AccMap({<<Positions, Accessor(vc, "F32", "Vec3")>>,
                        <<Normals, Accessor(vc, "F32", "Vec3")>>})],
      \* a semantic without an accessor on the primitive
      [ids |-> {<<K_POSITION, 0>>, <<K_NORMAL, 1>>, <<K_TEXCOORD_0, 5>>},
       accs |-> AccMap({<<Positions, Accessor(vc, "F32", "Vec3")>>})],
      [ids |-> {<<K_POSITION, 0>>, <<K_COLOR_0, 1>>, <<K_JOINTS_0, 5>>},
       accs |-> AccMap({<<Positions, Accessor(vc, "F32", "Vec3")>>,
                        <<Colors(0), Accessor(vc, "U8", "Vec4")>>,
                        <<Joints(0), Accessor(vc, "U16", "Vec4")>>})],
      [ids |-> {<<K_POSITION, 0>>, <<K_WEIGHTS_p0, 1>>, <<K_TANGENT, 5>>},
       accs |-> AccMap({<<Positions, Accessor(vc, "F32", "Vec3")>>,
                        <<Weights(0), Accessor(vc, "U16", "Vec4")>>,
                        <<Tangents, Accessor(vc, "F32", "Vec4")>>})] }

TestScene(vc) ==
    CHOOSE s \in Scenes(vc) : {pr[1] : pr \in s.ids} = {K_POSITION, K_TEXCOORD_0}

\* (dim, data_type) pairs of descriptors; 9 is the code the repository's test uses
Shapes == {<<3, 7>>, <<2, 9>>, <<4, 2>>, <<4, 4>>}
\* descriptor lists of at most n entries over the unique ids `ids`, no id
\* used twice (the engine gives every attribute its own id)
InfosOver(ids, n) ==
    {is \in SeqsUpTo({AttrInfo(id, sh[1], sh[2]) : id \in ids, sh \in Shapes}, n) :
        \A i, j \in DOMAIN is : i # j => is[i].unique_id # is[j].unique_id}

\* descriptor lists of at most n entries, entry i carrying unique id i - 1
InfosInOrder(n) ==
    {[i \in DOMAIN shs |-> AttrInfo(i - 1, shs[i][1], shs[i][2])] :
        shs \in SeqsUpTo(Shapes, n)}

IndexTypes == {"I8", "U8", "I16", "U16", "U32", "F32"}

Triangle(ext, accs, indices) ==
    [mode |-> "Triangles", extension |-> ext, attributes |-> accs, indices |-> indices]

GoodDocument == [views |-> <<[buffer |-> 0, offset |-> 1, length |-> 2]>>]
GoodBuffers == <<Ramp(3, 7)>>

Input(prim, doc, bufs, attr_infos, eng, debug) ==
    [p |-> prim, document |-> doc, buffers |-> bufs, infos |-> attr_infos,
     engine |-> eng, debug |-> debug]

\* what is needed of the raw buffer for the whole layout
RECURSIVE LayoutBytes(_, _)
LayoutBytes(vc, attr_infos) ==
    IF attr_infos = <<>> THEN 0
    ELSE byte_len(vc, Head(attr_infos)) + LayoutBytes(vc, Tail(attr_infos))

\* inputs that exercise the validation of prozes_in and get_buffer
ValidationInputs ==
    LET sc == TestScene(1)
        exts == {None, Some(JNull), Some(JObject([bufferView |-> JUint(0)])),
                 Some(JObject([bufferView |-> JString,
                               attributes |-> Obj({<<K_POSITION, JUint(0)>>})])),
                 Some(JObject([bufferView |-> JUint(0),
                               attributes |-> Obj({<<K_POSITION, JString>>})]))}
                \cup {Some(ExtValue(bv, sc.ids)) : bv \in 0..(MaxViews + 1)}
        accss == {sc.accs, AccMap({<<TexCoords(0), Accessor(1, "F32", "Vec2")>>})}
        idxs == {None, Some(Accessor(1, "U16", "Scalar"))}
        views == [buffer : {0, 1}, offset : {1}, length : {1, 3}]
        docs == {[views |-> vs] : vs \in SeqsUpTo(views, MaxViews)}
        bufss == {<<>>, <<Ramp(2, 0)>>, <<Ramp(3, 0)>>, <<Ramp(2, 0), Ramp(3, 0)>>}
    IN  {Input([mode |-> m, extension |-> e, attributes |-> a, indices |-> i],
               d, b, <<AttrInfo(0, 3, 7)>>, Some(Ramp(14, 0)), dbg) :
            m \in {"Triangles", "Points"}, e \in exts, a \in accss, i \in idxs,
            d \in docs, b \in bufss, dbg \in {FALSE}}

\* inputs that exercise get_indices: every index type and count against raw
\* buffers of every length
IndexInputs ==
    LET sc == TestScene(1)
        raws == {None, Some(<<1, 0, 2, 0>>)}
                \cup {Some(Ramp(n, s)) : n \in 0..MaxRawLen, s \in {1, 254}}
    IN  {Input(Triangle(Some(ExtValue(0, sc.ids)), sc.accs,
                        Some(Accessor(c, t, "Scalar"))),
               GoodDocument, GoodBuffers, is, r, FALSE) :
            c \in 0..MaxCount, t \in IndexTypes,
            is \in {<<>>, <<AttrInfo(0, 3, 7)>>}, r \in raws}

\* the type codes a descriptor may carry: 1..7 and codes the match arms of
\* map_draco_dt and of the slicing loop send to their default
TypeCodes == {0, 1, 2, 3, 4, 5, 6, 7, 9}

\* inputs that exercise the element sizes: one descriptor of every type code
\* and dimension against raw buffers of every length
TypeCodeInputs ==
    {Input(Triangle(Some(ExtValue(0, TestScene(vc).ids)), TestScene(vc).accs,
                    Some(Accessor(1, "U16", "Scalar"))),
           GoodDocument, GoodBuffers, <<AttrInfo(0, dim, code)>>, Some(Ramp(n, 0)), FALSE) :
        vc \in 0..MaxCount, dim \in 1..4, code \in TypeCodes, n \in 0..MaxRawLen}

\* inputs that exercise the slicing loop: every descriptor list against raw
\* buffers of every length
LayoutInputs ==
    {Input(Triangle(Some(ExtValue(0, TestScene(vc).ids)), TestScene(vc).accs,
                    Some(Accessor(1, "U16", "Scalar"))),
           GoodDocument, GoodBuffers, is, Some(Ramp(n, 0)), FALSE) :
        vc \in 0..MaxCount, is \in InfosInOrder(MaxInfos),
        n \in 0..MaxRawLen}

\* inputs that exercise the reverse map and fill_primitive: every scene
\* against every descriptor list, the engine returning exactly the layout
MappingInputs ==
    {Input(Triangle(Some(ExtValue(0, sc.ids)), sc.accs,
                    Some(Accessor(1, "U8", "Scalar"))),
           GoodDocument, GoodBuffers, is,
           Some(Ramp(2 + LayoutBytes(1, is), 3)), dbg) :
        sc \in Scenes(1), is \in InfosOver({0, 1, 5}, MaxInfos),
        dbg \in BOOLEAN}

Inputs ==
    ValidationInputs \cup IndexInputs \cup TypeCodeInputs \cup LayoutInputs
        \cup MappingInputs

\* ---------------------------------------------------- the state machine
VARIABLES
    p, document, buffers, infos,  \* the arguments of decode_draco
    engine,            \* what decode_mesh answers for these arguments: Some(raw) or None
    debug_assertions,  \* whether the build keeps debug_assert_eq!
    call,              \* 1 for the first call, 2 for its repetition
    first,             \* the result the first call returned
    pc,                \* the position inside decode_draco
    result,            \* the value decode_draco returns to its caller
    engine_log,        \* the arguments of every decode_mesh call of this run
    checked,           \* the Ok tuple of prozes_in
    raw, indices, index_bytes, cursor, attr_blocks, dracoid_to_sem, out, blk_i

args == <<p, document, buffers, infos, engine, debug_assertions>>
locals == <<checked, raw, indices, index_bytes, cursor, attr_blocks, dracoid_to_sem,
            out, blk_i>>
vars == <<args, call, first, pc, result, engine_log, locals>>

\* the locals of a call that has not started
Fresh ==
    [result |-> None, engine_log |-> <<>>, checked |-> None, raw |-> <<>>,
     indices |-> <<>>, index_bytes |-> 0, cursor |-> 0, attr_blocks |-> <<>>,
     dracoid_to_sem |-> EmptyMap, out |-> None, blk_i |-> 1]

Init ==
    /\ \E in \in Inputs :
          /\ p = in.p
          /\ document = in.document
          /\ buffers = in.buffers
          /\ infos = in.infos
          /\ engine = in.engine
          /\ debug_assertions = in.debug
    /\ call = 1
    /\ first = None
    /\ pc = "prozes_in"
    /\ result = Fresh.result
    /\ engine_log = Fresh.engine_log
    /\ checked = Fresh.checked
    /\ raw = Fresh.raw
    /\ indices = Fresh.indices
    /\ index_bytes = Fresh.index_bytes
    /\ cursor = Fresh.cursor
    /\ attr_blocks = Fresh.attr_blocks
    /\ dracoid_to_sem = Fresh.dracoid_to_sem
    /\ out = Fresh.out
    /\ blk_i = Fresh.blk_i

\* the call returns r to its caller
Finish(r) ==
    /\ result' = Some(r)
    /\ pc' = "done"

\* lib.rs 64-65
ProzesIn ==
    /\ pc = "prozes_in"
    /\ LET r == prozes_in(p, document, buffers, infos) IN
       IF r.tag = "Ok"
       THEN /\ checked' = Some(r.value)
            /\ pc' = "decode_mesh"
            /\ UNCHANGED result
       ELSE /\ Finish(r)
            /\ UNCHANGED checked
    /\ UNCHANGED <<args, call, first, engine_log, raw, indices, index_bytes, cursor,
                   attr_blocks, dracoid_to_sem, out, blk_i>>

\* DecodeMesh that goes on with an empty buffer when the engine fails
DecodeMesh_ignoring_failure ==
    /\ pc = "decode_mesh"
    /\ engine_log' = Append(engine_log,
                            [bytes |-> checked.v.draco_bytes, cfg |-> checked.v.cfg])
    /\ raw' = IF engine.some THEN engine.v ELSE <<>>
    /\ pc' = "get_indices"
    /\ UNCHANGED <<args, call, first, result, checked, indices, index_bytes, cursor,
                   attr_blocks, dracoid_to_sem, out, blk_i>>

\* lib.rs 66: the one await on the external engine
DecodeMesh ==
    /\ pc = "decode_mesh"
    /\ engine_log' = Append(engine_log,
                            [bytes |-> checked.v.draco_bytes, cfg |-> checked.v.cfg])
    /\ IF engine.some
       THEN /\ raw' = engine.v
            /\ pc' = "get_indices"
            /\ UNCHANGED result
       ELSE /\ Finish(Err(DracoDecode))
            /\ UNCHANGED raw
    /\ UNCHANGED <<args, call, first, checked, indices, index_bytes, cursor, attr_blocks,
                   dracoid_to_sem, out, blk_i>>

\* lib.rs 142-146
GetIndices ==
    /\ pc = "get_indices"
    /\ LET n == checked.v.index_count * comp_size_bytes(checked.v.index_comp)
           r == get_indices(raw, n, checked.v.index_comp)
       IN  /\ index_bytes' = n
           /\ IF r.tag = "Ok"
              THEN /\ indices' = r.value
                   /\ cursor' = n
                   /\ attr_blocks' = <<>>
                   /\ pc' = "slice"
                   /\ UNCHANGED result
              ELSE /\ Finish(r)
                   /\ UNCHANGED <<indices, cursor, attr_blocks>>
    /\ UNCHANGED <<args, call, first, engine_log, checked, raw, dracoid_to_sem, out, blk_i>>

\* lib.rs 147-163: one iteration of the slicing loop
SliceBlock ==
    /\ pc = "slice"
    /\ Len(attr_blocks) < Len(infos)
    /\ LET r == slice_block(raw, cursor, checked.v.vertex_count,
                            infos[Len(attr_blocks) + 1])
       IN  IF r.tag = "Ok"
           THEN /\ cursor' = r.value.cursor
                /\ attr_blocks' = Append(attr_blocks, r.value.blk)
                /\ UNCHANGED <<pc, result>>
           ELSE /\ Finish(r)
                /\ UNCHANGED <<cursor, attr_blocks>>
    /\ UNCHANGED <<args, call, first, engine_log, checked, raw, indices, index_bytes,
                   dracoid_to_sem, out, blk_i>>

\* lib.rs 165-178: the reverse map, built in the iteration order of a HashMap
\* whose hasher is seeded anew for every map, and the output under construction
BuildMap ==
    /\ pc = "slice"
    /\ Len(attr_blocks) = Len(infos)
    /\ \E order \in IterationOrders(DOMAIN checked.v.draco_ext.attributes) :
          dracoid_to_sem' = build_reverse_map(checked.v.draco_ext, p, order)
    /\ out' = Some([DefaultPrimitive EXCEPT !.indices = indices])
    /\ blk_i' = 1
    /\ pc' = "fill"
    /\ UNCHANGED <<args, call, first, result, engine_log, checked, raw, indices,
                   index_bytes, cursor, attr_blocks>>

\* FillBlock whose caller drops the error of fill_primitive and returns `out`
FillBlock_ignoring_error ==
    /\ pc = "fill"
    /\ blk_i <= Len(attr_blocks)
    /\ LET r == fill_block(out.v, attr_blocks[blk_i], dracoid_to_sem, debug_assertions)
       IN  IF r.tag = "Ok"
           THEN /\ out' = Some(r.value)
                /\ blk_i' = blk_i + 1
                /\ UNCHANGED <<pc, result>>
           ELSE /\ Finish(IF r.tag = "Err" THEN Ok(out.v) ELSE r)
                /\ UNCHANGED <<out, blk_i>>
    /\ UNCHANGED <<args, call, first, engine_log, checked, raw, indices, index_bytes,
                   cursor, attr_blocks, dracoid_to_sem>>

\* lib.rs 230-323: one iteration of the loop of fill_primitive
FillBlock ==
    /\ pc = "fill"
    /\ blk_i <= Len(attr_blocks)
    /\ LET r == fill_block(out.v, attr_blocks[blk_i], dracoid_to_sem, debug_assertions)
       IN  IF r.tag = "Ok"
           THEN /\ out' = Some(r.value)
                /\ blk_i' = blk_i + 1
                /\ UNCHANGED <<pc, result>>
           ELSE /\ Finish(r)
                /\ UNCHANGED <<out, blk_i>>
    /\ UNCHANGED <<args, call, first, engine_log, checked, raw, indices, index_bytes,
                   cursor, attr_blocks, dracoid_to_sem>>

\* lib.rs 180-181, 324
Return ==
    /\ pc = "fill"
    /\ blk_i > Len(attr_blocks)
    /\ Finish(Ok(out.v))
    /\ UNCHANGED <<args, call, first, engine_log, locals>>

\* the caller calls decode_draco again with the same arguments; every local
\* of the finished call is gone
CallAgain ==
    /\ pc = "done"
    /\ call = 1
    /\ call' = 2
    /\ first' = result
    /\ pc' = "prozes_in"
    /\ result' = Fresh.result
    /\ engine_log' = Fresh.engine_log
    /\ checked' = Fresh.checked
    /\ raw' = Fresh.raw
    /\ indices' = Fresh.indices
    /\ index_bytes' = Fresh.index_bytes
    /\ cursor' = Fresh.cursor
    /\ attr_blocks' = Fresh.attr_blocks
    /\ dracoid_to_sem' = Fresh.dracoid_to_sem
    /\ out' = Fresh.out
    /\ blk_i' = Fresh.blk_i
    /\ UNCHANGED args

Next ==
    \/ ProzesIn
    \/ DecodeMesh
    \/ GetIndices
    \/ SliceBlock
    \/ BuildMap
    \/ FillBlock
    \/ Return
    \/ CallAgain

Spec == Init /\ [][Next]_vars

\* ------------------------------------------------ vocabulary of the claims
Done == pc = "done"
Returned == result.v

ModeOk == p.mode = "Triangles"
ExtPresent == p.extension.some
ExtWellFormed ==
    /\ p.extension.v.t = "object"
    /\ {"bufferView", "attributes"} \subseteq DOMAIN p.extension.v.v
    /\ p.extension.v.v.bufferView.t = "uint"
    /\ p.extension.v.v.attributes.t = "object"
    /\ \A k \in DOMAIN p.extension.v.v.attributes.v :
          p.extension.v.v.attributes.v[k].t = "uint"
ViewIndex == p.extension.v.v.bufferView.v
ViewFound == ViewIndex < Len(document.views)
BufferIndex == document.views[ViewIndex + 1].buffer
BufferFound == BufferIndex < Len(buffers)
ViewFits ==
    document.views[ViewIndex + 1].offset + document.views[ViewIndex + 1].length
        <= Len(buffers[BufferIndex + 1])
HasPosition == Positions \in DOMAIN p.attributes
HasIndices == p.indices.some

\* the first failing check in the order the claim gives; None when none fails
FirstFailure ==
    IF ~ModeOk THEN Some(Err(UnsupportedMode))
    ELSE IF ~ExtPresent THEN Some(Err(NotDraco))
    ELSE IF ~ExtWellFormed THEN Some(Err(BadExtension))
    ELSE IF ~ViewFound THEN Some(Err(BadBufferView(ViewIndex)))
    ELSE IF ~BufferFound THEN Some(Err(BadBuffer(BufferIndex)))
    ELSE IF ~HasPosition THEN Some(Err(NoPositionAccessor))
    ELSE IF ~HasIndices THEN Some(Err(NoIndicesAccessor))
    ELSE None

\* the same order with the bounds check of the view's byte range in its place
FirstFailureWithRange ==
    IF ~ModeOk THEN Some(Err(UnsupportedMode))
    ELSE IF ~ExtPresent THEN Some(Err(NotDraco))
    ELSE IF ~ExtWellFormed THEN Some(Err(BadExtension))
    ELSE IF ~ViewFound THEN Some(Err(BadBufferView(ViewIndex)))
    ELSE IF ~BufferFound THEN Some(Err(BadBuffer(BufferIndex)))
    ELSE IF ~ViewFits THEN Some(Panic)
    ELSE IF ~HasPosition THEN Some(Err(NoPositionAccessor))
    ELSE IF ~HasIndices THEN Some(Err(NoIndicesAccessor))
    ELSE None

InputsValid ==
    /\ ModeOk /\ ExtPresent /\ ExtWellFormed /\ ViewFound /\ BufferFound /\ ViewFits
    /\ HasPosition /\ HasIndices

\* the width the claims give a descriptor's type code
ClaimedElemSize(code) == IF code \in {1, 2} THEN 1 ELSE IF code \in {3, 4} THEN 2 ELSE 4
ClaimedLen(i) ==
    p.attributes[Positions].count * infos[i].dim * ClaimedElemSize(infos[i].data_type)
RECURSIVE ClaimedLenBefore(_)
ClaimedLenBefore(i) == IF i <= 1 THEN 0 ELSE ClaimedLenBefore(i - 1) + ClaimedLen(i - 1)
\* the index type after the widening of U8, and the length of the index section
ClaimedIndexType ==
    IF p.indices.v.data_type = "U8" THEN "U16" ELSE p.indices.v.data_type
ClaimedIndexSize ==
    IF ClaimedIndexType \in {"I8", "U8"} THEN 1
    ELSE IF ClaimedIndexType \in {"I16", "U16"} THEN 2 ELSE 4
ClaimedIndexBytes == p.indices.v.count * ClaimedIndexSize
ClaimedStart(i) == ClaimedIndexBytes + ClaimedLenBefore(i)
ClaimedTotal == ClaimedStart(Len(infos) + 1)

\* the engine answered with a buffer that is too short at some step of slicing
RawTooShort ==
    /\ InputsValid
    /\ engine.some
    /\ \/ Len(engine.v) < ClaimedIndexBytes
       \/ \E i \in 1..Len(infos) : Len(engine.v) < ClaimedStart(i) + ClaimedLen(i)

\* ------------------------------------------------------------------ C1
\* C1: whenever the engine's buffer is shorter than the index section or than
\* the cursor plus some attribute section, the call returns Err(DracoDecode):
\* it neither aborts nor returns a shortened result.
C1_ShortBufferIsDracoDecode ==
    (Done /\ RawTooShort) => Returned = Err(DracoDecode)

C3_EngineOnceAfterChecks ==
    /\ Len(engine_log) <= 1
    /\ engine_log # <<>> => InputsValid
    /\ (~InputsValid /\ pc # "prozes_in") => (Done /\ engine_log = <<>>)
    /\ (engine_log # <<>> /\ ~engine.some) =>
          /\ Done
          /\ Returned = Err(DracoDecode)
          /\ indices = <<>> /\ attr_blocks = <<>> /\ ~out.some

C3_Witness ==
    /\ Done
    /\ Len(engine_log) = 1
    /\ ~engine.some
    /\ Returned = Err(DracoDecode)

\* ------------------------------------------------------------------ C4
\* C4: the second call with the same arguments and the same engine answer
\* returns what the first call returned, also when the extension gives one
\* unique id to two semantic keys.
C4_SameInputsSameResult ==
    (Done /\ call = 2) => result = first

\* ------------------------------------------------------------------ C5
\* the ids the claim puts in the reverse map: those of the extension entries
\* whose key names a semantic that has an accessor on the primitive
MappedIds ==
    {checked.v.draco_ext.attributes[k] :
        k \in {kk \in DOMAIN checked.v.draco_ext.attributes :
                  /\ dracokey_to_semantic(kk).some
                  /\ dracokey_to_semantic(kk).v \in DOMAIN p.attributes}}
UnmappedBlocks == {i \in 1..Len(attr_blocks) : attr_blocks[i].unique_id \notin MappedIds}
FirstUnmapped == CHOOSE i \in UnmappedBlocks : \A j \in UnmappedBlocks : i <= j
\* fill_primitive has been entered with every block sliced
FillEntered == out.some /\ Len(attr_blocks) = Len(infos)
\* block i resolves to an accessor whose dimension is not the block's
DimMismatch(i) ==
    /\ attr_blocks[i].unique_id \in DOMAIN dracoid_to_sem
    /\ dims_count(dracoid_to_sem[attr_blocks[i].unique_id].acc.dimensions)
          # attr_blocks[i].dim

\* C5 as stated: when some decoded block's unique_id is not in the reverse
\* map, the call fails with UnknownAttributeId of the first such block.
C5_UnknownIdOfFirstBlock ==
    (Done /\ FillEntered /\ UnmappedBlocks # {}) =>
        Returned = Err(UnknownAttributeId(attr_blocks[FirstUnmapped].unique_id))

\* C5 as amended: ... unless the build keeps debug assertions and a block before
\* the first unmapped one resolves to an accessor of another dimension: the
\* call then aborts on that block's debug_assert_eq! and reports no id.
C5_UnknownIdUnlessAssertFirst ==
    (/\ Done /\ FillEntered /\ UnmappedBlocks # {}
     /\ ~(debug_assertions /\ \E j \in 1..(FirstUnmapped - 1) : DimMismatch(j))) =>
        Returned = Err(UnknownAttributeId(attr_blocks[FirstUnmapped].unique_id))

\* id 5 is unmapped and is reported after an earlier block was written
C5_Witness ==
    /\ Done /\ FillEntered
    /\ UnmappedBlocks # {} /\ FirstUnmapped = 2
    /\ attr_blocks[2].unique_id = 5
    /\ out.v.positions.some
    /\ Returned = Err(UnknownAttributeId(5))

\* ------------------------------------------------------------------ C6
\* C6 as stated: in every successful decode the index section and the attribute
\* sections together are exactly as long as the buffer the engine returned.
C6_SectionsCoverBuffer ==
    (Done /\ Returned.tag = "Ok") => ClaimedTotal = Len(raw)

\* C6 as amended: in every successful decode the index section and the
\* attribute sections together are at most as long as the buffer the engine
\* returned, and the slicing cursor ends at their sum; bytes after it are left
\* unread and are not an error.
C6_SectionsWithinBuffer ==
    (Done /\ Returned.tag = "Ok") =>
        /\ cursor = ClaimedTotal
        /\ ClaimedTotal <= Len(raw)

\* a successful decode of two attribute sections that leaves bytes unread
C6_Witness ==
    /\ Done /\ Returned.tag = "Ok"
    /\ Len(infos) = 2
    /\ p.attributes[Positions].count > 0
    /\ p.indices.v.count > 0
    /\ cursor < Len(raw)

\* ------------------------------------------------------------------ C7
\* C7: in every successful decode each block's dim equals the dimension count
\* of the accessor its unique_id resolves to (a mismatch never yields Ok).
C7_DimsAgree ==
    (Done /\ Returned.tag = "Ok") =>
        \A i \in 1..Len(attr_blocks) : ~DimMismatch(i)

\* ------------------------------------------------------------------ C8
\* the k-th little-endian value of `width` bytes in the buffer, widened to u32
LEValue(bytes, k, width) ==
    LET b(j) == bytes[(k - 1) * width + j]
    IN  IF width = 2 THEN U32(0, b(1) + 256 * b(2))
        ELSE U32(b(3) + 256 * b(4), b(1) + 256 * b(2))

\* C8: the step that decodes the index section takes index_count * 2 bytes for
\* a U8 or U16 indices accessor and index_count * 4 bytes for a U32 one, and
\* what it yields are the index_count little-endian values of that width in
\* the emitted order; for every other index type it ends the call with
\* DracoDecode.
C8_IndexDecoding ==
    [][pc = "get_indices" =>
         LET t == p.indices.v.data_type
             n == p.indices.v.count
             w == IF t = "U32" THEN 4 ELSE 2
         IN  IF t \in {"U8", "U16", "U32"}
             THEN /\ index_bytes' = n * w
                  /\ pc' = "slice" =>
                        /\ n * w <= Len(raw)
                        /\ indices' = [k \in 1..n |-> LEValue(raw, k, w)]
             ELSE pc' = "done" /\ result'.v = Err(DracoDecode)]_vars

\* ------------------------------------------------------------------ C9
\* every block has been written into v: its id resolves and its slot is set
SlotSet(v, sem) ==
    CASE sem.kind = "Positions" -> v.positions.some
      [] sem.kind = "Normals" -> v.normals.some
      [] sem.kind = "Tangents" -> v.tangents.some
      [] sem.kind = "TexCoords" -> sem.set \in DOMAIN v.texcoords
      [] sem.kind = "Colors" -> sem.set \in DOMAIN v.colors
      [] sem.kind = "Joints" -> sem.set \in DOMAIN v.joints
      [] sem.kind = "Weights" -> sem.set \in DOMAIN v.weights
FullyPopulated(v) ==
    /\ Len(attr_blocks) = Len(infos)
    /\ Len(v.indices) = p.indices.v.count
    /\ \A i \in 1..Len(infos) :
          /\ infos[i].unique_id \in DOMAIN dracoid_to_sem
          /\ SlotSet(v, dracoid_to_sem[infos[i].unique_id].sem)

\* C9: a step that ends the call hands the caller either an error that carries
\* no DecodedPrimitive or a primitive into which every block was written; in
\* particular a failure of fill_primitive on a later block returns only
\* UnknownAttributeId, without the blocks already written; and no step
\* changes an argument of the call.
C9_AllOrNothing ==
    [][/\ args' = args
       /\ pc' = "done" =>
            \/ result'.v = Panic
            \/ /\ result'.v.tag = "Err"
               /\ DOMAIN result'.v = {"tag", "err"}
               /\ (pc = "fill" => result'.v.err = UnknownAttributeId(attr_blocks[blk_i].unique_id))
            \/ /\ result'.v.tag = "Ok"
               /\ DOMAIN result'.v = {"tag", "value"}
               /\ FullyPopulated(result'.v.value)]_vars

\* fill_primitive failed on the second block after the first was written
C9_Witness ==
    /\ Done
    /\ blk_i = 2 /\ Len(attr_blocks) >= 2
    /\ out.v.positions.some
    /\ Returned = Err(UnknownAttributeId(attr_blocks[2].unique_id))

\* ----------------------------------------------------------------- C10
\* C10: block i is the ClaimedLen(i) bytes of the buffer that start at the
\* length of the index section plus the lengths of the blocks before it, it
\* carries descriptor i's unique_id, dim and (mapped) type, descriptor i was
\* registered with the engine as entry i with a type code outside 1..7 as
\* Float32, and the sections lie inside the buffer one after the other.
C10_BlocksInDescriptorOrder ==
    (pc \in {"slice", "fill", "done"} /\ engine_log # <<>> /\ Len(attr_blocks) > 0) =>
        /\ Len(engine_log[1].cfg.attributes) = Len(infos)
        /\ \A i \in 1..Len(infos) :
              /\ engine_log[1].cfg.attributes[i].dim = infos[i].dim
              /\ infos[i].data_type \notin 1..7 =>
                    engine_log[1].cfg.attributes[i].data_type = "Float32"
        /\ Len(attr_blocks) <= Len(infos)
        /\ \A i \in 1..Len(attr_blocks) :
              /\ attr_blocks[i].unique_id = infos[i].unique_id
              /\ attr_blocks[i].dim = infos[i].dim
              /\ attr_blocks[i].dt = engine_log[1].cfg.attributes[i].data_type
              /\ Len(attr_blocks[i].bytes) = ClaimedLen(i)
              /\ ClaimedStart(i) + ClaimedLen(i) <= Len(raw)
              /\ \A j \in 1..ClaimedLen(i) :
                    attr_blocks[i].bytes[j] = raw[ClaimedStart(i) + j]
              /\ ClaimedStart(i) >= ClaimedIndexBytes
              /\ \A h \in 1..(i - 1) : ClaimedStart(h) + ClaimedLen(h) <= ClaimedStart(i)

\* two non-empty blocks were sliced, the second with a type code outside 1..7
C10_Witness ==
    /\ pc = "fill"
    /\ Len(attr_blocks) = 2
    /\ ClaimedIndexBytes > 0
    /\ ClaimedLen(1) > 0 /\ ClaimedLen(2) > 0
    /\ infos[2].data_type = 9
    /\ attr_blocks[2].bytes # attr_blocks[1].bytes

====
